---------------------------- MODULE Spec2Model ----------------------------
(***************************************************************************)
(* A model of src/main.py (TMS Tool): the CSV row codec (CSVHandler), the  *)
(* folder reconciliation (FolderManager) and the import run (TMSTool).     *)
(*                                                                         *)
(* Text is a sequence of one-character strings, so that strip(), split(),  *)
(* isdigit(), int() and the f-strings of the source are computed character *)
(* by character.  An Optional value is <<>> (Python None) or <<v>>.        *)
(* A csv file is the sequence of its data rows, each row the sequence of   *)
(* its field values as csv.writer receives them and csv.reader returns     *)
(* them (the header line is written by export and skipped by import).      *)
(***************************************************************************)
EXTENDS Integers, Sequences, FiniteSets, TLC

(***************************************************************************)
(* Bounds of the model.                                                    *)
(***************************************************************************)
MaxCases == 2
MaxRows == 3
MaxCalls == 3
MaxSteps == 2

(***************************************************************************)
(* Python values and string operations.                                    *)
(***************************************************************************)
None == <<>>
Some(v) == <<v>>
IsNone(o) == Len(o) = 0
Val(o) == o[1]

Digits == <<"0", "1", "2", "3", "4", "5", "6", "7", "8", "9">>
Whitespace == {" ", "\n", "\t"}

RECURSIVE Strip(_)
Strip(s) ==
  IF s = <<>> THEN <<>>
  ELSE IF Head(s) \in Whitespace THEN Strip(Tail(s))
  ELSE IF s[Len(s)] \in Whitespace THEN Strip(SubSeq(s, 1, Len(s) - 1))
  ELSE s

IsDigitChar(c) == \E d \in 1..10 : Digits[d] = c
DigitVal(c) == (CHOOSE d \in 1..10 : Digits[d] = c) - 1

\* str.isdigit(): non-empty and every character a digit
IsDigit(s) == s # <<>> /\ \A i \in 1..Len(s) : IsDigitChar(s[i])

\* int(s) is defined (no ValueError) for optional whitespace around digits
IntOk(s) == IsDigit(Strip(s))

RECURSIVE DigitsToInt(_)
DigitsToInt(s) ==
  IF s = <<>> THEN 0
  ELSE 10 * DigitsToInt(SubSeq(s, 1, Len(s) - 1)) + DigitVal(s[Len(s)])

Int_(s) == DigitsToInt(Strip(s))

\* str(n) for n >= 0
RECURSIVE Str(_)
Str(n) == IF n < 10 THEN <<Digits[n + 1]>> ELSE Str(n \div 10) \o <<Digits[(n % 10) + 1]>>

\* s.split(sep) for a one-character separator
RECURSIVE Split(_, _)
Split(s, sep) ==
  IF \A i \in 1..Len(s) : s[i] # sep THEN <<s>>
  ELSE LET k == CHOOSE i \in 1..Len(s) :
                  s[i] = sep /\ \A j \in 1..(i - 1) : s[j] # sep
       IN <<SubSeq(s, 1, k - 1)>> \o Split(SubSeq(s, k + 1, Len(s)), sep)

RECURSIVE Join(_, _)
Join(parts, sep) ==
  IF parts = <<>> THEN <<>>
  ELSE IF Len(parts) = 1 THEN parts[1]
  ELSE parts[1] \o <<sep>> \o Join(Tail(parts), sep)

EMPTY == <<>>
NoneText == <<"N", "o", "n", "e">>
UNASSIGNED == <<"u", "n", "a", "s", "s", "i", "g", "n", "e", "d">>

(***************************************************************************)
(* CSVHandler: the columns.  Col(h) is the 1-based position of header h,   *)
(* i.e. Python index + 1: row[10] is Col("steps"), row[11] Col("result").  *)
(***************************************************************************)
CSV_HEADERS ==
  << "id", "title", "state", "priority", "type", "automation_status",
     "description", "pre_conditions", "expected_results", "template",
     "steps", "result", "folder_id", "folder_name", "created_at", "updated_at" >>

Col(h) == CHOOSE i \in 1..Len(CSV_HEADERS) : CSV_HEADERS[i] = h

\* [''] * len(CSV_HEADERS) + ['']
BlankRow == [i \in 1..(Len(CSV_HEADERS) + 1) |-> EMPTY]

\* row with the given (header, value) pairs set
SetCols(row, hs, vs) ==
  [i \in 1..Len(row) |->
     IF \E k \in 1..Len(hs) : Col(hs[k]) = i
     THEN vs[CHOOSE k \in 1..Len(hs) : Col(hs[k]) = i]
     ELSE row[i]]

(***************************************************************************)
(* CSVHandler._get_folder_key.  Python truthiness: None, 0 and '' are      *)
(* false.                                                                  *)
(***************************************************************************)
TruthyInt(o) == ~IsNone(o) /\ Val(o) # 0
TruthyText(o) == ~IsNone(o) /\ Val(o) # EMPTY

get_folder_key(test_case) ==
  IF TruthyInt(test_case.folderId) /\ TruthyText(test_case.folderName)
  THEN Val(test_case.folderName) \o <<"|">> \o Str(Val(test_case.folderId))
  ELSE IF TruthyText(test_case.folderName)
  THEN Val(test_case.folderName) \o <<"|">> \o NoneText
  ELSE UNASSIGNED

(***************************************************************************)
(* CSVHandler.export_to_csv: the data rows written for a list of cases.    *)
(***************************************************************************)
\* f"{stepNo}. {step}"
StepCell(step) == Str(step.stepNo) \o <<".", " ">> \o step.step

MainRow(case) ==
  << Str(case.id), case.title, Str(case.state), Str(case.priority),
     Str(case.type), Str(case.automationStatus), case.description,
     EMPTY, EMPTY, Str(case.template), EMPTY, EMPTY,
     Str(case.folderId), case.folderName, case.createdAt, case.updatedAt,
     EMPTY >>

StepRow(step) ==
  SetCols(BlankRow, <<"steps", "result">>, <<StepCell(step), step.result>>)

RECURSIVE PreconditionRows(_)
PreconditionRows(lines) ==
  IF lines = <<>> THEN <<>>
  ELSE (IF Strip(Head(lines)) # EMPTY
        THEN <<SetCols(BlankRow, <<"steps">>, <<Strip(Head(lines))>>)>>
        ELSE <<>>) \o PreconditionRows(Tail(lines))

CaseRows(case) ==
  IF case.Steps # <<>> /\ case.template = 1
  THEN <<SetCols(MainRow(case), <<"steps", "result">>,
                 <<StepCell(case.Steps[1]), case.Steps[1].result>>)>>
       \o [k \in 1..(Len(case.Steps) - 1) |-> StepRow(case.Steps[k + 1])]
  ELSE IF case.preConditions # EMPTY
  THEN LET preconditions == Split(case.preConditions, "\n")
       IN <<SetCols(MainRow(case), <<"steps", "result">>,
                    <<preconditions[1], case.expectedResults>>)>>
          \o PreconditionRows(Tail(preconditions))
  ELSE <<SetCols(MainRow(case), <<"result">>, <<case.expectedResults>>)>>

RECURSIVE export_to_csv(_)
export_to_csv(test_cases) ==
  IF test_cases = <<>> THEN <<>>
  ELSE CaseRows(Head(test_cases)) \o export_to_csv(Tail(test_cases))

(***************************************************************************)
(* CSVHandler.import_from_csv: rows -> ordered mapping folder key -> cases *)
(* (a sequence of [key, cases] in insertion order, as a Python dict).      *)
(***************************************************************************)
\* row.extend([''] * (len(CSV_HEADERS) - len(row)))
Pad(row) ==
  IF Len(row) < Len(CSV_HEADERS)
  THEN row \o [i \in 1..(Len(CSV_HEADERS) - Len(row)) |-> EMPTY]
  ELSE row

HasKey(d, key) == \E i \in 1..Len(d) : d[i].key = key

\* Flush with the fault of putting the case first in its bucket
Flush_CaseFirst(cases_by_folder, current_case) ==
  IF IsNone(current_case) THEN cases_by_folder
  ELSE LET case == Val(current_case)
           folder_key == get_folder_key(case)
       IN IF HasKey(cases_by_folder, folder_key)
          THEN [i \in 1..Len(cases_by_folder) |->
                  IF cases_by_folder[i].key = folder_key
                  THEN [cases_by_folder[i] EXCEPT !.cases = <<case>> \o @]
                  ELSE cases_by_folder[i]]
          ELSE Append(cases_by_folder, [key |-> folder_key, cases |-> <<case>>])

\* cases_by_folder.setdefault(folder_key, []).append(current_case)
Flush(cases_by_folder, current_case) ==
  IF IsNone(current_case) THEN cases_by_folder
  ELSE LET case == Val(current_case)
           folder_key == get_folder_key(case)
       IN IF HasKey(cases_by_folder, folder_key)
          THEN [i \in 1..Len(cases_by_folder) |->
                  IF cases_by_folder[i].key = folder_key
                  THEN [cases_by_folder[i] EXCEPT !.cases = Append(@, case)]
                  ELSE cases_by_folder[i]]
          ELSE Append(cases_by_folder, [key |-> folder_key, cases |-> <<case>>])

\* IntOrDefault with the fault of decoding every blank cell to 0
IntOrDefault_BlankIsZero(cell, default) == IF Strip(cell) # EMPTY THEN Int_(cell) ELSE 0

IntOrDefault(cell, default) == IF Strip(cell) # EMPTY THEN Int_(cell) ELSE default

\* the int() calls of a header row raise ValueError on a non-numeric enum cell
HeaderRaises(row) ==
  \E h \in {"state", "priority", "type", "automation_status", "template"} :
     Strip(row[Col(h)]) # EMPTY /\ ~IntOk(row[Col(h)])

NewCase(row) ==
  LET template == IntOrDefault(row[Col("template")], 0)
      step == Strip(row[Col("steps")])
      result == Strip(row[Col("result")])
  IN [ id |-> Strip(row[Col("id")]),
       title |-> Strip(row[Col("title")]),
       state |-> IntOrDefault(row[Col("state")], 0),
       priority |-> IntOrDefault(row[Col("priority")], 1),
       type |-> IntOrDefault(row[Col("type")], 0),
       automationStatus |-> IntOrDefault(row[Col("automation_status")], 0),
       description |-> Strip(row[Col("description")]),
       template |-> template,
       folderId |-> IF Strip(row[Col("folder_id")]) # EMPTY /\ IsDigit(row[Col("folder_id")])
                    THEN Some(Int_(row[Col("folder_id")])) ELSE None,
       folderName |-> IF Strip(row[Col("folder_name")]) # EMPTY
                      THEN Some(Strip(row[Col("folder_name")])) ELSE None,
       steps |-> IF step # EMPTY /\ template = 1
                 THEN <<[step |-> step, result |-> result, stepNo |-> 1]>>
                 ELSE <<>>,
       preConditions |-> IF step # EMPTY /\ template # 1 THEN step ELSE EMPTY,
       expectedResults |-> result ]

\* Continue with the fault of numbering an added step by the steps before it
Continue_StepNoOffByOne(case, row) ==
  LET step == Strip(row[Col("steps")])
  IN IF case.template = 1
     THEN [case EXCEPT !.steps =
             Append(@, [step |-> step, result |-> Strip(row[Col("result")]),
                        stepNo |-> Len(case.steps)])]
     ELSE [case EXCEPT !.preConditions =
             IF @ # EMPTY THEN @ \o <<"\n">> \o step ELSE step]

\* Continue with the fault of putting an added precondition line first
Continue_LinePrepended(case, row) ==
  LET step == Strip(row[Col("steps")])
  IN IF case.template = 1
     THEN [case EXCEPT !.steps =
             Append(@, [step |-> step, result |-> Strip(row[Col("result")]),
                        stepNo |-> Len(case.steps) + 1])]
     ELSE [case EXCEPT !.preConditions =
             IF @ # EMPTY THEN step \o <<"\n">> \o @ ELSE step]

Continue(case, row) ==
  LET step == Strip(row[Col("steps")])
  IN IF case.template = 1
     THEN [case EXCEPT !.steps =
             Append(@, [step |-> step, result |-> Strip(row[Col("result")]),
                        stepNo |-> Len(case.steps) + 1])]
     ELSE [case EXCEPT !.preConditions =
             IF @ # EMPTY THEN @ \o <<"\n">> \o step ELSE step]

\* the loop over the rows; the result is <<>> ({}) when a row raises
RECURSIVE ImportLoop(_, _, _)
ImportLoop(rows, current_case, cases_by_folder) ==
  IF rows = <<>> THEN Flush(cases_by_folder, current_case)
  ELSE LET row == Pad(Head(rows))
       IN IF Strip(row[Col("id")]) # EMPTY
          THEN IF HeaderRaises(row) THEN <<>>
               ELSE ImportLoop(Tail(rows), Some(NewCase(row)),
                               Flush(cases_by_folder, current_case))
          ELSE IF ~IsNone(current_case) /\ Strip(row[Col("steps")]) # EMPTY
          THEN ImportLoop(Tail(rows), Some(Continue(Val(current_case), row)),
                          cases_by_folder)
          ELSE ImportLoop(Tail(rows), current_case, cases_by_folder)

import_from_csv(rows) == ImportLoop(rows, None, <<>>)

(***************************************************************************)
(* The remote collaborator (TMSClient).  A call either succeeds with a     *)
(* payload or fails and returns None ([] for a listing); `ok` is the       *)
(* transport's outcome, chosen by the environment.  The server numbers new *)
(* folders after the largest id in use.                                    *)
(***************************************************************************)
Folder(id, name) == [id |-> id, name |-> name]
Call(op, arg, res) == [op |-> op, arg |-> arg, res |-> res]

MaxId(live) == IF live = {} THEN 0 ELSE CHOOSE n \in {f.id : f \in live} : \A f \in live : f.id <= n

get_folder_by_id(live, folder_id, ok) ==
  IF ok /\ \E f \in live : f.id = folder_id
  THEN Some(CHOOSE f \in live : f.id = folder_id)
  ELSE None

\* [result, folders]: the created folder and the live set after the call
create_folder(live, name, ok) ==
  IF ok
  THEN LET new == Folder(MaxId(live) + 1, name)
       IN [result |-> Some(new), folders |-> live \cup {new}]
  ELSE [result |-> None, folders |-> live]

get_folders(live, ok) == IF ok THEN live ELSE {}

(***************************************************************************)
(* FolderManager.                                                          *)
(***************************************************************************)
\* f"{project_id}_{folder_id}"
CacheKey(project_id, folder_id) == Str(project_id) \o <<"_">> \o Str(folder_id)

\* [result, cache, folders, calls] of one call; getOk and createOk are the
\* outcomes of the two remote calls it may issue
\* validate_and_get_folder with the fault of not caching a reused folder
validate_and_get_folder_ReuseNotCached(project_id, folder_id, folder_name, cache, live, getOk, createOk) ==
  LET cache_key == CacheKey(project_id, folder_id)
      existing_folder == get_folder_by_id(live, folder_id, getOk)
      get_call == Call("get_folder_by_id", folder_id, existing_folder)
      created == create_folder(live, folder_name, createOk)
      create_call == Call("create_folder", folder_name, created.result)
  IN IF cache_key \in DOMAIN cache
     THEN [result |-> Some(cache[cache_key]), cache |-> cache, folders |-> live,
           calls |-> <<>>]
     ELSE IF ~IsNone(existing_folder) /\ Val(existing_folder).name = folder_name
     THEN [result |-> existing_folder, cache |-> cache,
           folders |-> live, calls |-> <<get_call>>]
     ELSE IF ~IsNone(created.result)
     THEN [result |-> created.result,
           cache |-> cache @@ (CacheKey(project_id, Val(created.result).id)
                                 :> Val(created.result)),
           folders |-> created.folders, calls |-> <<get_call, create_call>>]
     ELSE [result |-> None, cache |-> cache, folders |-> live,
           calls |-> <<get_call, create_call>>]

validate_and_get_folder(project_id, folder_id, folder_name, cache, live, getOk, createOk) ==
  LET cache_key == CacheKey(project_id, folder_id)
      existing_folder == get_folder_by_id(live, folder_id, getOk)
      get_call == Call("get_folder_by_id", folder_id, existing_folder)
      created == create_folder(live, folder_name, createOk)
      create_call == Call("create_folder", folder_name, created.result)
  IN IF cache_key \in DOMAIN cache
     THEN [result |-> Some(cache[cache_key]), cache |-> cache, folders |-> live,
           calls |-> <<>>]
     ELSE IF ~IsNone(existing_folder) /\ Val(existing_folder).name = folder_name
     THEN [result |-> existing_folder,
           cache |-> cache @@ (cache_key :> Val(existing_folder)),
           folders |-> live, calls |-> <<get_call>>]
     ELSE IF ~IsNone(created.result)
     THEN [result |-> created.result,
           cache |-> cache @@ (CacheKey(project_id, Val(created.result).id)
                                 :> Val(created.result)),
           folders |-> created.folders, calls |-> <<get_call, create_call>>]
     ELSE [result |-> None, cache |-> cache, folders |-> live,
           calls |-> <<get_call, create_call>>]

\* get_all_folders_map with the fault of an always empty map
get_all_folders_map_Empty(live, name, ok) == {}

\* the folders a name -> folder map built from a listing may hold for `name`
\* (with several folders of one name the listing's last one wins, and the
\* listing's order is the server's)
get_all_folders_map(live, name, ok) == {f \in get_folders(live, ok) : f.name = name}

(***************************************************************************)
(* TMSTool.import_test_cases: unpacking a bucket key.                      *)
(***************************************************************************)
\* folder_name, folder_id_str = folder_key.split('|')   (ValueError unless 2 parts)
Unpack(folder_key) ==
  LET parts == Split(folder_key, "|")
  IN IF Len(parts) # 2
     THEN [raises |-> TRUE, folder_name |-> EMPTY, folder_id |-> None]
     ELSE [raises |-> FALSE, folder_name |-> parts[1],
           folder_id |-> IF parts[2] # NoneText /\ IsDigit(parts[2])
                         THEN Some(Int_(parts[2])) ELSE None]

(***************************************************************************)
(* TMSTool._import_cases_to_folder: the payloads of one case.              *)
(***************************************************************************)
CaseData(test_case) ==
  [ title |-> test_case.title, state |-> test_case.state,
    priority |-> test_case.priority, type |-> test_case.type,
    automationStatus |-> test_case.automationStatus,
    description |-> test_case.description, template |-> test_case.template,
    preConditions |-> test_case.preConditions,
    expectedResults |-> test_case.expectedResults ]

\* Uid with the fault of leaving the index out of the identifier
Uid_Constant(j) == <<"u", "i", "d">> \o Str(0)

\* f"uid{j}" for the enumerate() index j = 0, 1, ...
Uid(j) == <<"u", "i", "d">> \o Str(j)

ApiSteps(steps) ==
  [k \in 1..Len(steps) |->
     [ id |-> 0, step |-> steps[k].step, result |-> steps[k].result,
       uid |-> Uid(k - 1), editState |-> "new",
       caseSteps |-> [stepNo |-> steps[k].stepNo] ]]

\* if test_case['steps'] and test_case['template'] == 1
PushesSteps(test_case) == test_case.steps # <<>> /\ test_case.template = 1

\* ImportOneCase with the fault of not counting a failed create_case
ImportOneCase_FailureUncounted(test_case, target_folder, success_count, error_count, created_case, updated_steps) ==
  LET create_call == Call("create_case",
                          [folder_id |-> target_folder.id,
                           case_data |-> CaseData(test_case)], created_case)
      update_call == Call("update_case_steps",
                          [case_id |-> Val(created_case).id,
                           steps_data |-> ApiSteps(test_case.steps)], updated_steps)
  IN IF IsNone(created_case)
     THEN [success_count |-> success_count, error_count |-> error_count,
           calls |-> <<create_call>>]
     ELSE IF PushesSteps(test_case)
     THEN IF ~IsNone(updated_steps)
          THEN [success_count |-> success_count + 1, error_count |-> error_count,
                calls |-> <<create_call, update_call>>]
          ELSE [success_count |-> success_count + 1, error_count |-> error_count,
                calls |-> <<create_call, update_call>>]
     ELSE [success_count |-> success_count + 1, error_count |-> error_count,
           calls |-> <<create_call>>]

\* ImportOneCase with the fault of counting a failed step push as an error
ImportOneCase_StepFailureIsError(test_case, target_folder, success_count, error_count, created_case, updated_steps) ==
  LET create_call == Call("create_case",
                          [folder_id |-> target_folder.id,
                           case_data |-> CaseData(test_case)], created_case)
      update_call == Call("update_case_steps",
                          [case_id |-> Val(created_case).id,
                           steps_data |-> ApiSteps(test_case.steps)], updated_steps)
  IN IF IsNone(created_case)
     THEN [success_count |-> success_count, error_count |-> error_count + 1,
           calls |-> <<create_call>>]
     ELSE IF PushesSteps(test_case)
     THEN IF ~IsNone(updated_steps)
          THEN [success_count |-> success_count + 1, error_count |-> error_count,
                calls |-> <<create_call, update_call>>]
          ELSE [success_count |-> success_count, error_count |-> error_count + 1,
                calls |-> <<create_call, update_call>>]
     ELSE [success_count |-> success_count + 1, error_count |-> error_count,
           calls |-> <<create_call>>]

\* one iteration of the loop over test_cases: created_case and updated_steps
\* are the results of the two remote calls (the second is issued only when
\* the first succeeded and the case pushes steps)
ImportOneCase(test_case, target_folder, success_count, error_count, created_case, updated_steps) ==
  LET create_call == Call("create_case",
                          [folder_id |-> target_folder.id,
                           case_data |-> CaseData(test_case)], created_case)
      update_call == Call("update_case_steps",
                          [case_id |-> Val(created_case).id,
                           steps_data |-> ApiSteps(test_case.steps)], updated_steps)
  IN IF IsNone(created_case)
     THEN [success_count |-> success_count, error_count |-> error_count + 1,
           calls |-> <<create_call>>]
     ELSE IF PushesSteps(test_case)
     THEN IF ~IsNone(updated_steps)
          THEN [success_count |-> success_count + 1, error_count |-> error_count,
                calls |-> <<create_call, update_call>>]
          ELSE [success_count |-> success_count + 1, error_count |-> error_count,
                calls |-> <<create_call, update_call>>]
     ELSE [success_count |-> success_count + 1, error_count |-> error_count,
           calls |-> <<create_call>>]

(***************************************************************************)
(* State.                                                                  *)
(***************************************************************************)
VARIABLES
  pc,               \* position of the program
  test_cases,       \* export: the detailed cases fetched from the project
  file,             \* the data rows of the csv file
  cases_by_folder,  \* import: the decoder's mapping
  folders,          \* the project's live folders on the server
  folders_cache,    \* FolderManager.folders_cache
  history,          \* the validate_and_get_folder calls made so far
  default_folder,   \* import_test_cases: default_folder
  targets,          \* import_test_cases: target_folder of each group so far
  gi,               \* index of the group being processed
  ci,               \* index of the case being processed
  success_count,    \* _import_cases_to_folder: success_count
  error_count,      \* _import_cases_to_folder: error_count
  total_success,    \* import_test_cases: total_success
  total_errors,     \* import_test_cases: total_errors
  log               \* remote calls of the import run, tagged with (group, case)

vars == << pc, test_cases, file, cases_by_folder, folders, folders_cache, history,
           default_folder, targets, gi, ci, success_count, error_count,
           total_success, total_errors, log >>

codecVars == << test_cases, file, cases_by_folder >>
folderVars == << folders, folders_cache, history >>
runVars == << default_folder, targets, gi, ci, success_count, error_count,
              total_success, total_errors, log >>

(***************************************************************************)
(* Inputs.                                                                 *)
(***************************************************************************)
ProjectIds == {1}
NameA == <<"A">>
NameB == <<"B">>
NamePipe == <<"A", "|", "B">>
InitialFolders == { {}, {Folder(1, NameA)} }
DeclaredIds == {1, 2, 3}
DeclaredNames == {NameA, NameB}
NewFolderNames == {<<"D">>}

\* a 17-column row with the given cells
Row(id, template, steps, result, folder_id, folder_name) ==
  SetCols(BlankRow,
          <<"id", "title", "template", "steps", "result", "folder_id", "folder_name">>,
          <<id, <<"T">>, template, steps, result, folder_id, folder_name>>)

\* rows of the files given to an import run
RunRows ==
  { Row(<<"1">>, <<"1">>, <<"s">>, <<"r">>, EMPTY, EMPTY),
    Row(EMPTY, EMPTY, <<"t">>, EMPTY, EMPTY, EMPTY),
    Row(<<"2">>, <<"0">>, EMPTY, EMPTY, <<"1">>, NameA),
    Row(<<"3">>, <<"1">>, <<"s">>, EMPTY, <<"1">>, NameB),
    Row(<<"4">>, EMPTY, <<"p">>, EMPTY, EMPTY, NameA),
    Row(<<"5">>, EMPTY, EMPTY, EMPTY, EMPTY, NamePipe) }

SeqsUpTo(S, n) == UNION {[1..k -> S] : k \in 1..n}

RunFiles == SeqsUpTo(RunRows, MaxRows)

Idle ==
  /\ default_folder = None /\ targets = <<>> /\ gi = 1 /\ ci = 1
  /\ success_count = 0 /\ error_count = 0 /\ total_success = 0 /\ total_errors = 0
  /\ log = <<>>

(***************************************************************************)
(* The import run (TMSTool.import_test_cases).                             *)
(***************************************************************************)
Init ==
  /\ pc = "load"
  /\ test_cases = <<>>
  /\ file \in RunFiles
  /\ cases_by_folder = <<>>
  /\ folders \in InitialFolders
  /\ folders_cache = <<>>
  /\ history = <<>>
  /\ Idle

Tag(calls, g, c) ==
  [k \in 1..Len(calls) |->
     [op |-> calls[k].op, arg |-> calls[k].arg, res |-> calls[k].res, g |-> g, c |-> c]]

\* cases_by_folder = self.csv_handler.import_from_csv(file_path)
LoadCsv ==
  /\ pc = "load"
  /\ cases_by_folder' = import_from_csv(file)
  /\ pc' = IF cases_by_folder' = <<>> THEN "returned"
           ELSE IF HasKey(cases_by_folder', UNASSIGNED) THEN "select_default"
           ELSE "groups"
  /\ UNCHANGED << test_cases, file, folderVars, runVars >>

\* the outcomes of select_or_create_folder: a listed folder, a new one, or None
SelectOutcomes(project_id, live) ==
  { [result |-> Some(f), folders |-> live,
     calls |-> <<Call("get_folders", project_id, Some(get_folders(live, TRUE)))>>] : f \in live }
  \cup
  UNION { { [result |-> create_folder(live, name, createOk).result,
             folders |-> create_folder(live, name, createOk).folders,
             calls |-> << Call("get_folders", project_id,
                               IF listOk THEN Some(get_folders(live, TRUE)) ELSE None),
                          Call("create_folder", name,
                               create_folder(live, name, createOk).result) >>]
            : name \in NewFolderNames }
          : listOk \in BOOLEAN, createOk \in BOOLEAN }

\* default_folder = self.select_or_create_folder(...); return if there is none
SelectDefault ==
  /\ pc = "select_default"
  /\ \E project_id \in ProjectIds : \E o \in SelectOutcomes(project_id, folders) :
       /\ default_folder' = o.result
       /\ folders' = o.folders
       /\ log' = log \o Tag(o.calls, 0, 0)
       /\ pc' = IF IsNone(o.result) THEN "returned" ELSE "groups"
  /\ UNCHANGED << codecVars, folders_cache, history, targets, gi, ci,
                  success_count, error_count, total_success, total_errors >>

\* what `history` keeps of one validate_and_get_folder call: its arguments, the
\* live folders when it was made, its result and the remote calls it issued
HistoryEntry(folder_id, folder_name, live, r) ==
  [folder_id |-> folder_id, folder_name |-> folder_name, live |-> live,
   result |-> r.result, calls |-> r.calls]

\* the outcomes of obtaining the target folder of a group that declares a folder
ResolveOutcomes(project_id, folder_key, cache, live) ==
  LET u == Unpack(folder_key)
  IN IF u.raises
     THEN { [raises |-> TRUE, target |-> None, cache |-> cache, folders |-> live,
             calls |-> <<>>, validated |-> <<>>] }
     ELSE IF TruthyInt(u.folder_id)
     THEN { [raises |-> FALSE, target |-> r.result, cache |-> r.cache,
             folders |-> r.folders, calls |-> r.calls,
             validated |-> <<HistoryEntry(Val(u.folder_id), u.folder_name, live, r)>>]
            : r \in { validate_and_get_folder(project_id, Val(u.folder_id), u.folder_name,
                                              cache, live, getOk, createOk)
                      : getOk \in BOOLEAN, createOk \in BOOLEAN } }
     ELSE UNION {
            LET found == get_all_folders_map(live, u.folder_name, listOk)
                list_call == Call("get_folders", project_id,
                                  IF listOk THEN Some(live) ELSE None)
                created == create_folder(live, u.folder_name, createOk)
            IN IF found # {}
               THEN { [raises |-> FALSE, target |-> Some(f), cache |-> cache,
                       folders |-> live, calls |-> <<list_call>>,
                       validated |-> <<>>] : f \in found }
               ELSE { [raises |-> FALSE, target |-> created.result, cache |-> cache,
                       folders |-> created.folders,
                       calls |-> <<list_call,
                                   Call("create_folder", u.folder_name, created.result)>>,
                       validated |-> <<>>] }
            : listOk \in BOOLEAN, createOk \in BOOLEAN }

GroupOutcomes(project_id, folder_key, cache, live, default) ==
  IF folder_key = UNASSIGNED
  THEN { [raises |-> FALSE, target |-> default, cache |-> cache, folders |-> live,
          calls |-> <<>>, validated |-> <<>>] }
  ELSE ResolveOutcomes(project_id, folder_key, cache, live)

\* SkipGroup with the fault of counting a skipped group as one error
SkipGroup_CountsOne(errors, skipped_cases) == errors + 1

\* total_errors += len(test_cases)
SkipGroup(errors, skipped_cases) == errors + Len(skipped_cases)

\* the head of one iteration of `for folder_key, test_cases in cases_by_folder.items()`
ProcessGroup ==
  /\ pc = "groups"
  /\ gi <= Len(cases_by_folder)
  /\ \E project_id \in ProjectIds :
     \E o \in GroupOutcomes(project_id, cases_by_folder[gi].key, folders_cache,
                            folders, default_folder) :
       /\ folders' = o.folders
       /\ folders_cache' = o.cache
       /\ log' = log \o Tag(o.calls, gi, 0)
       /\ history' = history \o o.validated
       /\ IF o.raises
          THEN /\ pc' = "raised"
               /\ UNCHANGED << targets, gi, total_errors >>
          ELSE /\ targets' = Append(targets, o.target)
               /\ IF IsNone(o.target)
                  THEN /\ total_errors' = SkipGroup(total_errors, cases_by_folder[gi].cases)
                       /\ gi' = gi + 1
                       /\ pc' = "groups"
                  ELSE /\ pc' = "cases"
                       /\ UNCHANGED << gi, total_errors >>
       /\ ci' = 1
       /\ success_count' = 0
       /\ error_count' = 0
  /\ UNCHANGED << codecVars, default_folder, total_success >>

\* the id the server gives the next created case
NextCaseId(calls) ==
  1 + Cardinality({k \in 1..Len(calls) : calls[k].op = "create_case" /\ ~IsNone(calls[k].res)})

\* ImportCase with the fault of taking the cases of a group last first
ImportCase_LastFirst ==
  /\ pc = "cases"
  /\ ci <= Len(cases_by_folder[gi].cases)
  /\ \E createOk \in BOOLEAN, updateOk \in BOOLEAN :
       LET n == Len(cases_by_folder[gi].cases)
           r == ImportOneCase(cases_by_folder[gi].cases[n + 1 - ci], Val(targets[gi]),
                              success_count, error_count,
                              IF createOk THEN Some([id |-> NextCaseId(log)]) ELSE None,
                              IF updateOk THEN Some("updated") ELSE None)
       IN /\ success_count' = r.success_count
          /\ error_count' = r.error_count
          /\ log' = log \o Tag(r.calls, gi, ci)
  /\ ci' = ci + 1
  /\ UNCHANGED << pc, codecVars, folderVars, default_folder, targets, gi,
                  total_success, total_errors >>

\* one iteration of `for i, test_case in enumerate(test_cases, 1)`
ImportCase ==
  /\ pc = "cases"
  /\ ci <= Len(cases_by_folder[gi].cases)
  /\ \E createOk \in BOOLEAN, updateOk \in BOOLEAN :
       LET r == ImportOneCase(cases_by_folder[gi].cases[ci], Val(targets[gi]),
                              success_count, error_count,
                              IF createOk THEN Some([id |-> NextCaseId(log)]) ELSE None,
                              IF updateOk THEN Some("updated") ELSE None)
       IN /\ success_count' = r.success_count
          /\ error_count' = r.error_count
          /\ log' = log \o Tag(r.calls, gi, ci)
  /\ ci' = ci + 1
  /\ UNCHANGED << pc, codecVars, folderVars, default_folder, targets, gi,
                  total_success, total_errors >>

\* FinishGroup with the fault of leaving the errors of the group out of the total
FinishGroup_ErrorsDropped ==
  /\ pc = "cases"
  /\ ci > Len(cases_by_folder[gi].cases)
  /\ total_success' = total_success + success_count
  /\ total_errors' = total_errors
  /\ gi' = gi + 1
  /\ pc' = "groups"
  /\ UNCHANGED << codecVars, folderVars, default_folder, targets, ci,
                  success_count, error_count, log >>

\* return success_count, error_count; the totals are updated
FinishGroup ==
  /\ pc = "cases"
  /\ ci > Len(cases_by_folder[gi].cases)
  /\ total_success' = total_success + success_count
  /\ total_errors' = total_errors + error_count
  /\ gi' = gi + 1
  /\ pc' = "groups"
  /\ UNCHANGED << codecVars, folderVars, default_folder, targets, ci,
                  success_count, error_count, log >>

\* the loop over the groups is over: the final statistics
Finish ==
  /\ pc = "groups"
  /\ gi > Len(cases_by_folder)
  /\ pc' = "done"
  /\ UNCHANGED << codecVars, folderVars, runVars >>

Next == LoadCsv \/ SelectDefault \/ ProcessGroup \/ ImportCase \/ FinishGroup \/ Finish

Spec == Init /\ [][Next]_vars

(***************************************************************************)
(* The import run on files whose groups declare one folder name with and   *)
(* without an id.                                                          *)
(***************************************************************************)
OrderRows ==
  { Row(<<"1">>, <<"1">>, <<"s">>, <<"r">>, EMPTY, EMPTY),
    Row(<<"3">>, <<"1">>, <<"s">>, EMPTY, <<"1">>, NameB),
    Row(<<"4">>, EMPTY, <<"p">>, EMPTY, EMPTY, NameA),
    Row(<<"6">>, EMPTY, EMPTY, EMPTY, EMPTY, NameB),
    Row(<<"7">>, EMPTY, EMPTY, EMPTY, <<"2">>, NameA) }

OrderFiles == SeqsUpTo(OrderRows, MaxRows)

InitOrder ==
  /\ pc = "load"
  /\ test_cases = <<>>
  /\ file \in OrderFiles
  /\ cases_by_folder = <<>>
  /\ folders \in InitialFolders
  /\ folders_cache = <<>>
  /\ history = <<>>
  /\ Idle

SpecOrder == InitOrder /\ [][Next]_vars

(***************************************************************************)
(* FolderManager used on its own: any sequence of validate_and_get_folder  *)
(* calls on one FolderManager.                                             *)
(***************************************************************************)
InitFM ==
  /\ pc = "folder_manager"
  /\ test_cases = <<>>
  /\ file = <<>>
  /\ cases_by_folder = <<>>
  /\ folders \in InitialFolders
  /\ folders_cache = <<>>
  /\ history = <<>>
  /\ Idle

ValidateAndGetFolder ==
  /\ pc = "folder_manager"
  /\ Len(history) < MaxCalls
  /\ \E project_id \in ProjectIds, folder_id \in DeclaredIds, folder_name \in DeclaredNames,
        getOk \in BOOLEAN, createOk \in BOOLEAN :
       LET r == validate_and_get_folder(project_id, folder_id, folder_name,
                                        folders_cache, folders, getOk, createOk)
       IN /\ folders' = r.folders
          /\ folders_cache' = r.cache
          /\ history' = Append(history, HistoryEntry(folder_id, folder_name, folders, r))
  /\ UNCHANGED << pc, codecVars, runVars >>

NextFM == ValidateAndGetFolder

SpecFM == InitFM /\ [][NextFM]_vars

(***************************************************************************)
(* The codec used on its own: export of the project's cases to a file and  *)
(* import of that file, or import of a file written by hand.               *)
(***************************************************************************)
StepPairs == { [step |-> <<"a">>, result |-> <<"r">>],
               [step |-> <<"b", " ", "c">>, result |-> EMPTY] }

\* the Steps of a fetched case, in stepNo order 1..n
RemoteSteps ==
  {<<>>} \cup
  UNION { { [k \in 1..n |-> [step |-> f[k].step, result |-> f[k].result, stepNo |-> k]]
            : f \in [1..n -> StepPairs] }
          : n \in 1..MaxSteps }

RemoteCase(template, steps, preConditions) ==
  [ id |-> 7, title |-> <<"L">>, state |-> 0, priority |-> 1, type |-> 0,
    automationStatus |-> 0, description |-> EMPTY, template |-> template,
    Steps |-> steps, preConditions |-> preConditions, expectedResults |-> EMPTY,
    folderId |-> 12, folderName |-> NameA, createdAt |-> EMPTY, updatedAt |-> EMPTY ]

\* stepwise cases with steps, simple cases with one or two precondition lines,
\* and cases with no payload
ExportCases ==
  { RemoteCase(1, st, EMPTY) : st \in RemoteSteps }
  \cup { RemoteCase(0, <<>>, p) : p \in {EMPTY, <<"p">>, <<"p", "\n", "q">>} }

\* rows of the files written by hand
HandRows ==
  RunRows \cup
  { Row(<<"6">>, EMPTY, EMPTY, EMPTY, <<"0">>, NameA),
    Row(<<"8">>, <<"1">>, EMPTY, EMPTY, <<"7">>, NamePipe),
    Row(<<"9">>, <<"0">>, <<"p">>, <<"e">>, <<"x">>, EMPTY),
    Row(EMPTY, EMPTY, <<" ", "u">>, <<"v", " ">>, EMPTY, EMPTY),
    SetCols(Row(<<"10">>, EMPTY, EMPTY, EMPTY, EMPTY, EMPTY), <<"state">>, <<<<"x">>>>),
    << <<"7">>, <<"T">> >>,
    Row(<<"11">>, EMPTY, EMPTY, EMPTY, <<" ", "7">>, NameA),
    <<EMPTY, EMPTY>> }

InitCodec ==
  /\ \/ /\ pc = "fetched"
        /\ test_cases \in SeqsUpTo(ExportCases, MaxCases)
        /\ file = <<>>
     \/ /\ pc = "written"
        /\ test_cases = <<>>
        /\ file \in SeqsUpTo(HandRows, MaxRows)
  /\ cases_by_folder = <<>>
  /\ folders = {}
  /\ folders_cache = <<>>
  /\ history = <<>>
  /\ Idle

\* CSVHandler.export_to_csv(cases, file_path)
ExportToCsv ==
  /\ pc = "fetched"
  /\ file' = export_to_csv(test_cases)
  /\ pc' = "exported"
  /\ UNCHANGED << test_cases, cases_by_folder, folderVars, runVars >>

\* CSVHandler.import_from_csv(file_path)
ImportFromCsv ==
  /\ pc \in {"exported", "written"}
  /\ cases_by_folder' = import_from_csv(file)
  /\ pc' = IF pc = "exported" THEN "reimported" ELSE "imported"
  /\ UNCHANGED << test_cases, file, folderVars, runVars >>

NextCodec == ExportToCsv \/ ImportFromCsv

SpecCodec == InitCodec /\ [][NextCodec]_vars

(***************************************************************************)
(* The claims.                                                             *)
(***************************************************************************)
IsOp(e, op) == e.op = op
Creates == {k \in 1..Len(log) : IsOp(log[k], "create_case")}
CreatesOf(g, c) == {k \in Creates : log[k].g = g /\ log[k].c = c}
PushesOf(g, c) ==
  {k \in 1..Len(log) : IsOp(log[k], "update_case_steps") /\ log[k].g = g /\ log[k].c = c}
Last(q) == q[Len(q)]

\* C1: a validate_and_get_folder call whose declared name differs from the
\* name of the live folder with the declared id never returns that existing
\* folder: it returns a folder newly created with the declared name, or none.
C1_MismatchCreatesNewFolder ==
  \A k \in 1..Len(history) :
    LET h == history[k]
    IN (\E f \in h.live : f.id = h.folder_id /\ f.name # h.folder_name)
       => \/ IsNone(h.result)
          \/ /\ Val(h.result) \notin h.live
             /\ Val(h.result).name = h.folder_name

\* C2: a second validate_and_get_folder call with the arguments of an earlier
\* call that returned a folder (reused or created) returns the same folder and
\* issues no remote call.
C2_SecondCallIsCached ==
  \A i \in 1..Len(history) : \A j \in (i + 1)..Len(history) :
    ( /\ history[i].folder_id = history[j].folder_id
      /\ history[i].folder_name = history[j].folder_name
      /\ ~IsNone(history[i].result) )
    => /\ history[j].result = history[i].result
       /\ history[j].calls = <<>>

\* the cases of a mapping, bucket after bucket
RECURSIVE AllCases(_)
AllCases(d) == IF d = <<>> THEN <<>> ELSE Head(d).cases \o AllCases(Tail(d))

\* C3: importing the rows written by export yields the same cases in the same
\* order, with equal title, template, steps (text, result, stepNo) and
\* preConditions.
C3_RoundTrip ==
  pc = "reimported" =>
    LET out == AllCases(cases_by_folder)
    IN /\ Len(out) = Len(test_cases)
       /\ \A i \in 1..Len(out) :
            /\ out[i].title = test_cases[i].title
            /\ out[i].template = test_cases[i].template
            /\ Len(out[i].steps) = Len(test_cases[i].Steps)
            /\ \A j \in 1..Len(out[i].steps) :
                 /\ out[i].steps[j].step = test_cases[i].Steps[j].step
                 /\ out[i].steps[j].result = test_cases[i].Steps[j].result
                 /\ out[i].steps[j].stepNo = test_cases[i].Steps[j].stepNo
            /\ Join(Split(out[i].preConditions, "\n"), "\n")
                 = Join(Split(test_cases[i].preConditions, "\n"), "\n")

UnassignedGroup ==
  IF HasKey(cases_by_folder, UNASSIGNED)
  THEN (CHOOSE g \in 1..Len(cases_by_folder) : cases_by_folder[g].key = UNASSIGNED)
  ELSE 0

\* C4: when no default folder can be obtained for the 'unassigned' group, only
\* that group is skipped: its cases are all counted as errors and every other
\* group is still resolved.
C4_OnlyUnassignedSkipped ==
  ( /\ pc \in {"returned", "done"}
    /\ HasKey(cases_by_folder, UNASSIGNED)
    /\ IsNone(default_folder) )
  => /\ total_errors >= Len(cases_by_folder[UnassignedGroup].cases)
     /\ \A g \in 1..Len(cases_by_folder) :
          g # UnassignedGroup => \E k \in 1..Len(log) : log[k].g = g

\* C5: when the target folder of a group that declares a folder cannot be
\* resolved, no create_case is issued for the group, the error count grows by
\* the number of its cases, and the run goes on with the next group.
C5_UnresolvedGroupSkipped ==
  /\ [][ ( /\ pc = "groups"
           /\ Len(targets') = Len(targets) + 1
           /\ IsNone(Last(targets')) )
         => /\ cases_by_folder[gi].key # UNASSIGNED
            /\ total_errors' = total_errors + Len(cases_by_folder[gi].cases)
            /\ total_success' = total_success
            /\ gi' = gi + 1
            /\ pc' = "groups"
            /\ \A k \in 1..Len(log') : IsOp(log'[k], "create_case") => log'[k].g # gi
     ]_vars
  /\ [](\A g \in 1..Len(targets) :
          IsNone(targets[g]) => \A k \in Creates : log[k].g # g)

C5_Witness ==
  \E g \in 1..Len(targets) :
    /\ IsNone(targets[g])
    /\ Len(cases_by_folder[g].cases) >= 2
    /\ total_errors >= 2
    /\ g < Len(targets)
    /\ ~IsNone(targets[g + 1])
    /\ CreatesOf(g + 1, 1) # {}

\* the cases of group g that the loop has gone through
Attempted(g) ==
  IF g < gi THEN Len(cases_by_folder[g].cases)
  ELSE IF pc = "cases" /\ g = gi THEN ci - 1 ELSE 0

\* C6: when create_case fails for a case, error_count grows by one,
\* success_count is unchanged, no update_case_steps is issued for the case,
\* and the later cases of the group are still attempted.
C6_FailedCreateCounted ==
  /\ [][ ( /\ pc = "cases"
           /\ Len(log') > Len(log)
           /\ IsOp(log'[Len(log) + 1], "create_case")
           /\ IsNone(log'[Len(log) + 1].res) )
         => /\ error_count' = error_count + 1
            /\ success_count' = success_count
            /\ Len(log') = Len(log) + 1
            /\ pc' = "cases"
            /\ gi' = gi
            /\ ci' = ci + 1
     ]_vars
  /\ [](\A g \in 1..Len(targets) :
          ~IsNone(targets[g]) =>
            \A c \in 1..Attempted(g) :
              /\ Cardinality(CreatesOf(g, c)) = 1
              /\ (\A k \in CreatesOf(g, c) : IsNone(log[k].res)) => PushesOf(g, c) = {})

C6_Witness ==
  \E g \in 1..Len(targets) : \E c \in 1..Len(cases_by_folder[g].cases) :
    /\ g < gi
    /\ \E k \in CreatesOf(g, c) : IsNone(log[k].res)
    /\ PushesSteps(cases_by_folder[g].cases[c])
    /\ CreatesOf(g, c + 1) # {}
    /\ total_errors >= 1

\* the number of cases in the groups 1..n for which no target was obtained
RECURSIVE SkippedCases(_)
SkippedCases(n) ==
  IF n = 0 THEN 0
  ELSE SkippedCases(n - 1)
       + (IF IsNone(targets[n]) THEN Len(cases_by_folder[n].cases) ELSE 0)

\* C7: a case whose create_case succeeded is counted exactly once as a success
\* and never as an error, whatever happens to its update_case_steps call.
C7_CreatedCaseIsSuccess ==
  LET counted_ok == total_success + (IF pc = "cases" THEN success_count ELSE 0)
      counted_err == total_errors + (IF pc = "cases" THEN error_count ELSE 0)
  IN /\ counted_ok = Cardinality({k \in Creates : ~IsNone(log[k].res)})
     /\ counted_err = Cardinality({k \in Creates : IsNone(log[k].res)})
                        + SkippedCases(Len(targets))
     /\ pc = "cases" =>
          /\ success_count = Cardinality({k \in Creates : log[k].g = gi /\ ~IsNone(log[k].res)})
          /\ error_count = Cardinality({k \in Creates : log[k].g = gi /\ IsNone(log[k].res)})

C7_Witness ==
  /\ pc = "done"
  /\ total_success = 3
  /\ \E k \in 1..Len(log) : IsOp(log[k], "update_case_steps") /\ IsNone(log[k].res)
  /\ \E k \in 1..Len(log) : IsOp(log[k], "update_case_steps") /\ ~IsNone(log[k].res)
  /\ \E g \in 1..Len(targets) : \E c \in 1..Len(cases_by_folder[g].cases) :
       /\ PushesOf(g, c) = {}
       /\ \E k \in CreatesOf(g, c) : ~IsNone(log[k].res)

\* C8: update_case_steps is issued only right after a successful create_case of
\* the same case, only for a case with template = 1 and steps; its payload has
\* one entry per decoded step, in order, with the step's stepNo, text and
\* result, editState 'new', and pairwise distinct uid values.
C8_StepPush ==
  \A k \in 1..Len(log) :
    IsOp(log[k], "update_case_steps") =>
      LET case == cases_by_folder[log[k].g].cases[log[k].c]
          pushed == log[k].arg.steps_data
      IN /\ k > 1
         /\ IsOp(log[k - 1], "create_case")
         /\ log[k - 1].g = log[k].g
         /\ log[k - 1].c = log[k].c
         /\ ~IsNone(log[k - 1].res)
         /\ Val(log[k - 1].res).id = log[k].arg.case_id
         /\ case.template = 1
         /\ case.steps # <<>>
         /\ Len(pushed) = Len(case.steps)
         /\ \A j \in 1..Len(pushed) :
              /\ pushed[j].step = case.steps[j].step
              /\ pushed[j].result = case.steps[j].result
              /\ pushed[j].caseSteps.stepNo = case.steps[j].stepNo
              /\ pushed[j].editState = "new"
         /\ \A i, j \in 1..Len(pushed) : i # j => pushed[i].uid # pushed[j].uid

C8_Witness ==
  \E k \in 1..Len(log) :
    /\ IsOp(log[k], "update_case_steps")
    /\ Len(log[k].arg.steps_data) >= 3
    /\ ~IsNone(log[k].res)

\* the key the claim gives a declared (folderId, folderName)
DeclaredKey(folderId, folderName) ==
  IF ~IsNone(folderId) /\ ~IsNone(folderName)
  THEN Val(folderName) \o <<"|">> \o Str(Val(folderId))
  ELSE IF ~IsNone(folderName) THEN Val(folderName) \o <<"|">> \o NoneText
  ELSE UNASSIGNED

\* C9: the key of a case is "{folderName}|{folderId}" when both are declared,
\* "{folderName}|None" when only the name is, and "unassigned" when neither is.
C9_FolderKey ==
  \A g \in 1..Len(cases_by_folder) : \A c \in 1..Len(cases_by_folder[g].cases) :
    LET case == cases_by_folder[g].cases[c]
    IN (~IsNone(case.folderName) \/ IsNone(case.folderId))
       => /\ cases_by_folder[g].key = DeclaredKey(case.folderId, case.folderName)
          /\ get_folder_key(case) = DeclaredKey(case.folderId, case.folderName)

\* C10: unpacking a bucket key other than 'unassigned' never fails and, for
\* every group the run has unpacked, gives back the folderName and the
\* folderId (absent for '...|None') declared by the cases of the bucket.
C10_UnpackRecovers ==
  /\ pc # "raised"
  /\ \A g \in 1..Len(targets) :
       cases_by_folder[g].key # UNASSIGNED =>
         LET u == Unpack(cases_by_folder[g].key)
         IN /\ ~u.raises
            /\ \A c \in 1..Len(cases_by_folder[g].cases) :
                 /\ cases_by_folder[g].cases[c].folderName = Some(u.folder_name)
                 /\ cases_by_folder[g].cases[c].folderId = u.folder_id

\* a cell of a row as read from the file: '' past the end of a short row
Cell(row, h) == IF Col(h) <= Len(row) THEN row[Col(h)] ELSE EMPTY
IsHeader(row) == Strip(Cell(row, "id")) # EMPTY
HasPayload(row) == Strip(Cell(row, "steps")) # EMPTY
\* the file is one header row followed by continuation rows with a payload
OneCaseFile ==
  /\ file # <<>>
  /\ IsHeader(file[1])
  /\ \A h \in {"state", "priority", "type", "automation_status"} : Cell(file[1], h) = EMPTY
  /\ \A i \in 2..Len(file) : ~IsHeader(file[i]) /\ HasPayload(file[i])
PayloadRows == SelectSeq(file, HasPayload)
TheCase == cases_by_folder[1].cases[1]
RawCells(rows, h) == [k \in 1..Len(rows) |-> Cell(rows[k], h)]
StripCells(rows, h) == [k \in 1..Len(rows) |-> Strip(Cell(rows[k], h))]

StepwiseFile == OneCaseFile /\ Strip(Cell(file[1], "template")) = <<"1">>
SimpleFile ==
  OneCaseFile /\ Strip(Cell(file[1], "template")) = <<"0">> /\ HasPayload(file[1])

DecodedSteps(texts, results) ==
  /\ Len(cases_by_folder) = 1
  /\ Len(cases_by_folder[1].cases) = 1
  /\ TheCase.template = 1
  /\ Len(TheCase.steps) = Len(texts)
  /\ \A j \in 1..Len(texts) :
       /\ TheCase.steps[j].stepNo = j
       /\ TheCase.steps[j].step = texts[j]
       /\ TheCase.steps[j].result = results[j]
  /\ (Strip(Cell(file[1], "folder_id")) = EMPTY /\ Strip(Cell(file[1], "folder_name")) = EMPTY)
       => cases_by_folder[1].key = UNASSIGNED

\* C11 as stated: a header row with template = 1 and its continuation rows
\* decode to one case with one step per row with a non-blank step column, in
\* file order, stepNo 1..n, step text equal to the row's step column and
\* result equal to its result column; with blank folder columns the case is
\* in the 'unassigned' bucket.
C11_StepsAsWritten ==
  (pc = "imported" /\ StepwiseFile)
  => DecodedSteps(RawCells(PayloadRows, "steps"), RawCells(PayloadRows, "result"))

\* C11 amended: the same, with step text and result equal to the row's step
\* and result columns after strip() (surrounding whitespace removed).
C11_StepsStripped ==
  (pc = "imported" /\ StepwiseFile)
  => DecodedSteps(StripCells(PayloadRows, "steps"), StripCells(PayloadRows, "result"))

C11_Witness ==
  /\ pc = "imported"
  /\ StepwiseFile
  /\ Len(PayloadRows) = 3
  /\ Len(TheCase.steps) = 3
  /\ \E j \in 1..3 : Cell(PayloadRows[j], "steps") # Strip(Cell(PayloadRows[j], "steps"))
  /\ cases_by_folder[1].key = UNASSIGNED

DecodedPreConditions(texts) ==
  /\ Len(cases_by_folder) = 1
  /\ Len(cases_by_folder[1].cases) = 1
  /\ TheCase.steps = <<>>
  /\ TheCase.preConditions = Join(texts, "\n")

\* C12 as stated: a header row with template = 0 and a non-blank payload column
\* followed by k continuation rows with non-blank payload columns decodes to
\* one case without steps whose preConditions is the k+1 payload texts joined
\* by newline in file order.
C12_PreConditionsAsWritten ==
  (pc = "imported" /\ SimpleFile) => DecodedPreConditions(RawCells(file, "steps"))

\* C12 amended: the same, each payload text taken after strip().
C12_PreConditionsStripped ==
  (pc = "imported" /\ SimpleFile) => DecodedPreConditions(StripCells(file, "steps"))

C12_Witness ==
  /\ pc = "imported"
  /\ SimpleFile
  /\ Len(file) = 3
  /\ file[2] # file[3]
  /\ Len(Split(TheCase.preConditions, "\n")) = 3

EnumColumns == {"state", "priority", "type", "automation_status", "template"}
\* every enum cell of every header row is blank or a number
EnumsNumeric ==
  \A i \in 1..Len(file) :
    IsHeader(file[i]) =>
      \A h \in EnumColumns :
        Strip(Cell(file[i], h)) = EMPTY \/ IsDigit(Strip(Cell(file[i], h)))
HeaderRows == SelectSeq(file, IsHeader)
\* the folder id and name a header row declares
RowFolderId(row) ==
  IF IsDigit(Cell(row, "folder_id")) THEN Some(Int_(Cell(row, "folder_id"))) ELSE None
RowFolderName(row) ==
  IF Strip(Cell(row, "folder_name")) # EMPTY
  THEN Some(Strip(Cell(row, "folder_name"))) ELSE None
RowKey(row) ==
  get_folder_key([folderId |-> RowFolderId(row), folderName |-> RowFolderName(row)])
Ids(cases) == [k \in 1..Len(cases) |-> cases[k].id]
RECURSIVE RowsOfKey(_, _)
RowsOfKey(rows, key) ==
  IF rows = <<>> THEN <<>>
  ELSE (IF RowKey(Head(rows)) = key THEN <<Strip(Cell(Head(rows), "id"))>> ELSE <<>>)
       \o RowsOfKey(Tail(rows), key)

\* C13: for a file whose enum cells are blank or numeric, the decoded mapping
\* holds exactly one case per row with a non-blank id; every case is in one
\* bucket only, the one keyed by _get_folder_key of the case; the cases of a
\* bucket are in the order of their header rows in the file.
C13_OneCasePerHeaderRow ==
  (pc = "imported" /\ EnumsNumeric) =>
    /\ Len(AllCases(cases_by_folder)) = Len(HeaderRows)
    /\ \A a, b \in 1..Len(cases_by_folder) :
         a # b => cases_by_folder[a].key # cases_by_folder[b].key
    /\ \A b \in 1..Len(cases_by_folder) :
         /\ cases_by_folder[b].cases # <<>>
         /\ \A k \in 1..Len(cases_by_folder[b].cases) :
              get_folder_key(cases_by_folder[b].cases[k]) = cases_by_folder[b].key
         /\ Ids(cases_by_folder[b].cases) = RowsOfKey(HeaderRows, cases_by_folder[b].key)

C13_Witness ==
  /\ pc = "imported"
  /\ EnumsNumeric
  /\ Len(HeaderRows) = 3
  /\ Len(cases_by_folder) = 2
  /\ Len(cases_by_folder[1].cases) = 2
  /\ cases_by_folder[1].cases[1].id # cases_by_folder[1].cases[2].id
  /\ RowKey(file[2]) = cases_by_folder[2].key

PadTo16(row) == row \o [k \in 1..(16 - Len(row)) |-> EMPTY]
Padded(rows) == [k \in 1..Len(rows) |-> IF Len(rows[k]) < 16 THEN PadTo16(rows[k]) ELSE rows[k]]
Default(h) == IF h = "priority" THEN 1 ELSE 0
EnumOf(case, h) ==
  CASE h = "state" -> case.state
    [] h = "priority" -> case.priority
    [] h = "type" -> case.type
    [] h = "automation_status" -> case.automationStatus
    [] h = "template" -> case.template

\* C15: a short row or a blank enum or id cell never makes the decoder reject
\* the file: a row with fewer than 16 columns decodes as if it were padded on
\* the right with empty cells; a blank enum cell decodes to state 0, priority
\* 1, type 0, automationStatus 0, template 0; the folder-id cell decodes to an
\* integer only when it is numeric and to null otherwise.
C15_ShortAndBlankTolerated ==
  (pc = "imported" /\ EnumsNumeric) =>
    /\ Len(AllCases(cases_by_folder)) = Len(HeaderRows)
    /\ cases_by_folder = import_from_csv(Padded(file))
    /\ \A i \in 1..Len(HeaderRows) :
         \E b \in 1..Len(cases_by_folder) : \E k \in 1..Len(cases_by_folder[b].cases) :
           LET case == cases_by_folder[b].cases[k]
               row == HeaderRows[i]
           IN /\ case.id = Strip(Cell(row, "id"))
              /\ \A h \in EnumColumns :
                   Strip(Cell(row, h)) = EMPTY => EnumOf(case, h) = Default(h)
              /\ IF IsDigit(Cell(row, "folder_id"))
                 THEN case.folderId = Some(DigitsToInt(Cell(row, "folder_id")))
                 ELSE case.folderId = None

C15_Witness ==
  /\ pc = "imported"
  /\ EnumsNumeric
  /\ Len(AllCases(cases_by_folder)) = 3
  /\ \E i \in 1..Len(file) : IsHeader(file[i]) /\ Len(file[i]) < 16
  /\ \E i \in 1..Len(file) :
       IsHeader(file[i]) /\ Strip(Cell(file[i], "folder_id")) # EMPTY
                         /\ ~IsDigit(Cell(file[i], "folder_id"))
  /\ \E i \in 1..Len(file) : IsHeader(file[i]) /\ IsDigit(Cell(file[i], "folder_id"))

\* the keys of the header rows in the order of their first appearance
RECURSIVE FirstKeys(_, _)
FirstKeys(rows, seen) ==
  IF rows = <<>> THEN <<>>
  ELSE IF RowKey(Head(rows)) \in seen THEN FirstKeys(Tail(rows), seen)
  ELSE <<RowKey(Head(rows))>> \o FirstKeys(Tail(rows), seen \cup {RowKey(Head(rows))})

\* C14: the groups are processed in the order of the decoded mapping, which is
\* the order in which the keys first appear in the file; all create_case and
\* update_case_steps calls of one group are made before any call of the next
\* group; within a group the create_case calls follow the order of the cases.
\* Stated of every step: the decoder's step yields the keys in first-appearance
\* order, and every call a step adds to the log is made for the case of the
\* current group and position and comes after the calls already logged.
C14_GroupsInOrder ==
  [][ /\ pc = "load" =>
           [b \in 1..Len(cases_by_folder') |-> cases_by_folder'[b].key]
             = FirstKeys(HeaderRows, {})
      /\ \A k \in (Len(log) + 1)..Len(log') :
           (IsOp(log'[k], "create_case") \/ IsOp(log'[k], "update_case_steps")) =>
             LET g == log'[k].g
                 c == log'[k].c
             IN /\ g = gi /\ g \in 1..Len(cases_by_folder)
                /\ c \in 1..Len(cases_by_folder[g].cases)
                /\ IsOp(log'[k], "create_case") =>
                     log'[k].arg.case_data = CaseData(cases_by_folder[g].cases[c])
                /\ IsOp(log'[k], "update_case_steps") =>
                     log'[k].arg.steps_data = ApiSteps(cases_by_folder[g].cases[c].steps)
                /\ \A j \in 1..(k - 1) :
                     (IsOp(log'[j], "create_case") \/ IsOp(log'[j], "update_case_steps")) =>
                       \/ log'[j].g < g
                       \/ log'[j].g = g /\ log'[j].c < c
                       \/ /\ log'[j].g = g /\ log'[j].c = c
                          /\ IsOp(log'[j], "create_case")
                          /\ IsOp(log'[k], "update_case_steps") ]_vars

C14_Witness ==
  /\ pc = "done"
  /\ Len(cases_by_folder) = 2
  /\ RowKey(file[2]) = cases_by_folder[2].key
  /\ CreatesOf(1, 1) # {} /\ CreatesOf(1, 2) # {} /\ CreatesOf(2, 1) # {}
  /\ \E j \in PushesOf(1, 2) : \E k \in CreatesOf(2, 1) : j < k

\* C18: when the import reaches its final statistics, total_success plus
\* total_errors is the number of decoded cases; create_case was attempted at
\* most once for a decoded case, and exactly once for every case of a group
\* whose target folder was obtained.
C18_TotalsCoverEveryCase ==
  /\ \A k \in Creates :
       /\ log[k].g \in 1..Len(cases_by_folder)
       /\ log[k].c \in 1..Len(cases_by_folder[log[k].g].cases)
       /\ CreatesOf(log[k].g, log[k].c) = {k}
  /\ pc = "done" =>
       /\ total_success + total_errors = Len(AllCases(cases_by_folder))
       /\ \A g \in 1..Len(cases_by_folder) : \A c \in 1..Len(cases_by_folder[g].cases) :
            Cardinality(CreatesOf(g, c)) = IF IsNone(targets[g]) THEN 0 ELSE 1

C18_Witness ==
  /\ pc = "done"
  /\ Len(cases_by_folder) = 2
  /\ IsNone(targets[1])
  /\ Len(cases_by_folder[1].cases) = 2
  /\ total_errors = 3
  /\ Cardinality(Creates) = 1

\* the remote calls made while the target of group g was obtained
GroupCalls(g) == SelectSeq(log, LAMBDA e : e.g = g /\ e.c = 0)
FolderCreates(calls) == {k \in 1..Len(calls) : IsOp(calls[k], "create_folder")}
\* group g declares a folder name and no id
NameOnly(g) ==
  /\ cases_by_folder[g].key # UNASSIGNED
  /\ ~Unpack(cases_by_folder[g].key).raises
  /\ ~TruthyInt(Unpack(cases_by_folder[g].key).folder_id)
NameOf(g) == Unpack(cases_by_folder[g].key).folder_name
Named(fs, name) == {f \in fs : f.name = name}
\* target is reached for group g through calls, where `known` are the folders
\* the reuse is decided on
NameOnlyResolved(g, known, calls, target) ==
  /\ calls # <<>>
  /\ IsOp(calls[1], "get_folders")
  /\ IF Named(known, NameOf(g)) # {}
     THEN /\ FolderCreates(calls) = {}
          /\ ~IsNone(target)
          /\ Val(target) \in Named(known, NameOf(g))
     ELSE /\ Cardinality(FolderCreates(calls)) = 1
          /\ \A k \in FolderCreates(calls) :
               calls[k].arg = NameOf(g) /\ calls[k].res = target

\* C16 as stated: for a group that declares only a folder name the project's
\* folders are listed; if a folder of that name exists in the project it is the
\* target and no create_folder call is made; otherwise exactly one
\* create_folder call with that name is made and its result is the target.
C16_NameOnlyAgainstProject ==
  [][ (pc = "groups" /\ Len(targets') = Len(targets) + 1 /\ NameOnly(gi))
      => NameOnlyResolved(gi, folders, SubSeq(log', Len(log) + 1, Len(log')),
                          Last(targets')) ]_vars

\* C16 amended: the same, decided on the folders the get_folders call returned;
\* a failed listing counts as an empty one, so that a folder is then created
\* although one of that name may exist in the project.
C16_NameOnlyAgainstListing ==
  \A g \in 1..Len(targets) :
    NameOnly(g) =>
      /\ GroupCalls(g) # <<>>
      /\ NameOnlyResolved(g, IF IsNone(GroupCalls(g)[1].res) THEN {}
                             ELSE Val(GroupCalls(g)[1].res),
                          GroupCalls(g), targets[g])

C16_Witness ==
  /\ pc = "done"
  /\ \E g \in 1..Len(targets) :
       /\ NameOnly(g)
       /\ Len(GroupCalls(g)) = 1
       /\ ~IsNone(GroupCalls(g)[1].res)
       /\ ~IsNone(targets[g])
       /\ Val(targets[g]) \in Val(GroupCalls(g)[1].res)
       /\ Val(targets[g]).name = NameOf(g)
       /\ CreatesOf(g, 1) # {}

\* the live folder with the declared id and name of the latest call, if any
Matching(h, live) == {f \in live : f.id = h.folder_id /\ f.name = h.folder_name}
\* the latest validate_and_get_folder call reused the folder f
Reused(h, f) ==
  /\ h.result = Some(f)
  /\ FolderCreates(h.calls) = {}
  /\ folders' = folders
  /\ \A p \in ProjectIds :
       /\ CacheKey(p, h.folder_id) \in DOMAIN folders_cache'
       /\ folders_cache'[CacheKey(p, h.folder_id)] = f
\* the folder was cached, or get_folder_by_id returned it
LookedUp(h) == h.calls = <<>> \/ ~IsNone(h.calls[1].res)

FoldersCreated(calls) ==
  {k \in FolderCreates(calls) : calls[k].g >= 1 /\ ~IsNone(calls[k].res)}

\* C19: in one import run at most one folder is created for a declared folder
\* name: groups declaring the same name, one with a missing or mismatched id
\* and one with no id, never make two create_folder calls with that name,
\* whatever the order of the groups; and the name-only path creates no folder
\* with a name that a folder of the project has at that moment.
C19_OneFolderPerName ==
  [][ \A k \in FoldersCreated(log') :
        k > Len(log) =>
          /\ \A j \in FoldersCreated(log') : log'[j].arg = log'[k].arg => j = k
          /\ NameOnly(log'[k].g) => Named(folders, log'[k].arg) = {} ]_vars

=============================================================================
